---- MODULE Spec2Model ----
(***************************************************************************)
(* Video block tool for Editor.js: the block controller (src/src/index.ts) *)
(* and its presentation layer (src/src/ui.ts), with the uploader and the   *)
(* host editor as their environment.                                       *)
(*                                                                         *)
(* JavaScript values are tagged records, so that undefined, null, strings, *)
(* numbers and objects can be told apart and compared.  A string is a      *)
(* sequence of tokens ("a", ".mp4", "?q=1", ...), which is enough for the  *)
(* code's regular expressions and emptiness tests.  An object is a         *)
(* function from its own property names to values: a missing property is   *)
(* a name outside its DOMAIN.                                              *)
(***************************************************************************)
EXTENDS Integers, Sequences, FiniteSets, TLC

VARIABLES
    config,            \* this.config: features.caption and actions
    toolData,          \* the `data` the host handed to the constructor
    data,              \* this._data: the record (file, caption, aspectRatio)
    isCaptionEnabled,  \* this.isCaptionEnabled: null | true | false
    classList,         \* ui.nodes.wrapper.classList: the modifier classes set
    captionHTML,       \* ui.nodes.caption.innerHTML
    children,          \* media elements appended to ui.nodes.videoContainer
    videoEl,           \* ui.nodes.videoEl: index into children, 0 = undefined
    started,           \* number of uploads issued so far; upload k is the k-th
    pending,           \* uploads in flight
    lastOutcome,       \* the outcome handled last: of which upload (0 = none yet)
                       \* and, when it was a well-formed success, its file
    last,              \* the last handler: what it returned, the error it threw,
                       \* the notifications it raised, the callbacks it invoked,
                       \* the uploader calls it issued
    fetching,          \* onPaste calls suspended at `await fetch(src)`, by src
    vInput,            \* validate(): the record under test
    vResult            \* validate(): what the call produced

vars == <<config, toolData, data, isCaptionEnabled, classList, captionHTML,
          children, videoEl, started, pending, lastOutcome,
          last, fetching, vInput, vResult>>

(***************************************************************************)
(* Bounds                                                                  *)
(***************************************************************************)
MaxUploads == 2

(***************************************************************************)
(* JavaScript values                                                       *)
(***************************************************************************)
Undefined == [t |-> "undefined"]

Null == [t |-> "null"]

NaN == [t |-> "NaN"]

Infinity == [t |-> "Infinity"]

Str(s) == [t |-> "string", v |-> s]

Bool(b) == [t |-> "boolean", v |-> b]

Obj(p) == [t |-> "object", p |-> p]

RECURSIVE Gcd(_, _)
Gcd(a, b) == IF b = 0 THEN a ELSE Gcd(b, a % b)

\* A non-negative rational n/d in lowest terms.
Num(n, d) == [t |-> "number", n |-> n \div Gcd(n, d), d |-> d \div Gcd(n, d)]

EmptyObject == Obj([k \in {} |-> Undefined])

\* Boolean(v), !!v and the test of `if (v)`.
Truthy(v) ==
    CASE v.t = "undefined" -> FALSE
      [] v.t = "null" -> FALSE
      [] v.t = "NaN" -> FALSE
      [] v.t = "Infinity" -> TRUE
      [] v.t = "string" -> v.v # <<>>
      [] v.t = "boolean" -> v.v
      [] v.t = "number" -> v.n # 0
      [] v.t = "object" -> TRUE

\* a ?? b
Nullish(a, b) == IF a.t \in {"undefined", "null"} THEN b ELSE a

\* a || b
OrElse(a, b) == IF Truthy(a) THEN a ELSE b

\* o.k for an object o; reading a property of null or undefined throws.
Get(o, k) == IF k \in DOMAIN o.p THEN o.p[k] ELSE Undefined

CanRead(o) == o.t \notin {"undefined", "null"}

\* o?.k
GetOpt(o, k) == IF CanRead(o) THEN Get(o, k) ELSE Undefined

\* a / b on the non-negative numbers the model uses.
Divide(a, b) ==
    IF b.n = 0
    THEN IF a.n = 0 THEN NaN ELSE Infinity
    ELSE Num(a.n * b.d, a.d * b.n)

(***************************************************************************)
(* The values the environment draws from                                   *)
(***************************************************************************)
UrlA == <<"a", ".mp4">>

UrlB == <<"b", ".webm">>

Blob == <<"blob">>

\* The src of a pasted tag that refers to an in-memory blob.
SrcBlob == <<"blob:", "x">>

\* What `(await fetch(src)).blob()` yields for a blob: src.
FetchedBlob(src) == <<"fetched">> \o src

\* The file-selection dialog closed without a file.
NoFile == <<>>

\* The paste events the host delivers for pasteConfig's tags, patterns and
\* files; detail is the tag's src, the matched string, or the file.
PasteEvents ==
    { [type |-> "tag", detail |-> SrcBlob],
      [type |-> "tag", detail |-> UrlB],
      [type |-> "pattern", detail |-> UrlA],
      [type |-> "file", detail |-> Blob] }

FileA == Obj([url |-> Str(UrlA)])

FileB == Obj([url |-> Str(UrlB), id |-> Str(<<"7">>)])

FileEmptyUrl == Obj([url |-> Str(<<>>)])

One == Num(1, 1)

Zero == Num(0, 1)

\* What an upload can resolve with (README "Backend response format", and the
\* shapes a server that breaks it can send).
Responses ==
    { Obj([success |-> One, file |-> f]) :
          f \in {FileA, FileB, FileEmptyUrl, EmptyObject} }
    \cup { Obj([success |-> One]), Obj([success |-> Zero]),
           Obj([success |-> Zero, file |-> FileA]) }

\* README "Backend response format": success is 1 and file holds a url.
WellFormedSuccess(r) ==
    /\ Get(r, "success") = One
    /\ Get(r, "file").t = "object"
    /\ Get(Get(r, "file"), "url").t = "string"
    /\ Get(Get(r, "file"), "url").v # <<>>

Captions == {<<>>, <<"cap">>}

\* Natural dimensions a playable video reports once its first frame is decoded.
VideoDims == {<<4, 2>>}

FeatureCaption == {"undefined", "true", "false", "optional"}

\* config.actions: none; a tune without a callback and one with a callback
\* that is named caption; a tune named caption without a callback.
ActionLists ==
    { <<>>,
      <<[name |-> "border", hasAction |-> FALSE],
        [name |-> "caption", hasAction |-> TRUE]>>,
      <<[name |-> "caption", hasAction |-> FALSE]>> }

\* The configurations the upload life cycle is explored under: the default
\* (features not configured) and the caption as a tune, no extra actions.
Configs == [caption : {"undefined", "optional"}, actions : {<<>>}]

\* The configurations the caption and the tunes are explored under.
CaptionConfigs == [caption : FeatureCaption, actions : ActionLists]

\* tool.data: {} for a new block, otherwise what an earlier save() returned.
SavedData ==
    { EmptyObject }
    \cup { Obj([file |-> f, caption |-> Str(c), aspectRatio |-> r]) :
              f \in {FileA}, c \in {<<"cap">>}, r \in {Num(2, 1)} }

(***************************************************************************)
(* Presentation layer (ui.ts).  Its operations act on the part s of the    *)
(* state a handler works on; the actions below commit the result.          *)
(***************************************************************************)
Empty == "empty"

Uploading == "uploading"

Filled == "filled"

UiState == {Empty, Uploading, Filled}

\* classList.toggle(name, force)
ClassToggle(classes, name, force) ==
    IF force THEN classes \cup {name} ELSE classes \ {name}

\* Ui.toggleStatus
ToggleStatus(s, status) ==
    LET RECURSIVE Loop(_, _)
        Loop(classes, todo) ==
            IF todo = {} THEN classes
            ELSE LET state == CHOOSE x \in todo : TRUE
                 IN Loop(ClassToggle(classes, state, state = status),
                         todo \ {state})
    IN [s EXCEPT !.classList = Loop(s.classList, UiState)]

\* Ui.applyTune
ApplyTune(s, tuneName, status) ==
    [s EXCEPT !.classList = ClassToggle(@, tuneName, status)]

\* Ui.render
UiRender(s) == ToggleStatus(s, Empty)

\* Ui.showPreloader
ShowPreloader(s) == ToggleStatus(s, Uploading)

\* Ui.hidePreloader
HidePreloader(s) == ToggleStatus(s, Empty)

\* /\.mp4$/.test(url)
EndsWithMp4(url) == Len(url) > 0 /\ url[Len(url)] = ".mp4"

\* Mutant of FillVideo: the status is set to Filled as soon as the element is
\* built, without waiting for its load event.
FillVideo_MarksFilled(s, url) ==
    LET tag == IF EndsWithMp4(url) THEN "VIDEO" ELSE "IMG"
        el == [tag |-> tag,
               src |-> url,
               playsinline |-> (tag = "VIDEO"),
               controls |-> (tag = "VIDEO"),
               eventName |-> IF tag = "VIDEO" THEN "loadeddata" ELSE "load",
               ready |-> FALSE,
               videoWidth |-> IF tag = "VIDEO" THEN Zero ELSE Undefined,
               videoHeight |-> IF tag = "VIDEO" THEN Zero ELSE Undefined]
    IN ToggleStatus([s EXCEPT !.children = Append(@, el),
                              !.videoEl = Len(s.children) + 1], Filled)

\* Ui.fillVideo: a new element, its load listener, appended to the container.
FillVideo(s, url) ==
    LET tag == IF EndsWithMp4(url) THEN "VIDEO" ELSE "IMG"
        el == [tag |-> tag,
               src |-> url,
               playsinline |-> (tag = "VIDEO"),
               controls |-> (tag = "VIDEO"),
               eventName |-> IF tag = "VIDEO" THEN "loadeddata" ELSE "load",
               ready |-> FALSE,
               videoWidth |-> IF tag = "VIDEO" THEN Zero ELSE Undefined,
               videoHeight |-> IF tag = "VIDEO" THEN Zero ELSE Undefined]
    IN [s EXCEPT !.children = Append(@, el),
                 !.videoEl = Len(s.children) + 1]

\* Mutant of FillCaption: the text is written into the record as well.
FillCaption_WritesRecord(s, text) ==
    [s EXCEPT !.captionHTML = text, !.data.caption = Str(text)]

\* Ui.fillCaption
FillCaption(s, text) == [s EXCEPT !.captionHTML = text]

(***************************************************************************)
(* Block controller (index.ts)                                             *)
(***************************************************************************)
DefaultData ==
    [caption |-> Str(<<>>), aspectRatio |-> One, file |-> FileEmptyUrl]

\* Mutant of SetVideo: only the url of the uploaded file is stored.
SetVideo_UrlOnly(s, file) ==
    LET kept == IF Truthy(file) THEN Obj([url |-> Get(file, "url")]) ELSE FileEmptyUrl
        s1 == [s EXCEPT !.data.file = kept]
    IN IF Truthy(file) /\ Truthy(Get(file, "url"))
       THEN FillVideo(s1, Get(file, "url").v)
       ELSE s1

\* Mutant of SetVideo: a record that already names a file keeps it.
SetVideo_KeepFirst(s, file) ==
    LET s1 == [s EXCEPT !.data.file = OrElse(file, FileEmptyUrl)]
    IN IF Truthy(Get(s.data.file, "url"))
       THEN s
       ELSE IF Truthy(file) /\ Truthy(Get(file, "url"))
            THEN FillVideo(s1, Get(file, "url").v)
            ELSE s1

\* set video(file)
SetVideo(s, file) ==
    LET s1 == [s EXCEPT !.data.file = OrElse(file, FileEmptyUrl)]
    IN IF Truthy(file) /\ Truthy(Get(file, "url"))
       THEN FillVideo(s1, Get(file, "url").v)
       ELSE s1

\* set data(data)
SetData(s, d, cfg) ==
    LET s1 == SetVideo(s, Get(d, "file"))
        s2 == [s1 EXCEPT !.data.caption = OrElse(Get(d, "caption"), Str(<<>>))]
        s3 == FillCaption(s2, s2.data.caption.v)
        s4 == [s3 EXCEPT !.data.aspectRatio = OrElse(Get(d, "aspectRatio"), One)]
    IN IF cfg.caption = "true"
       THEN ApplyTune(s4, "caption",
                      Truthy(OrElse(Get(d, "caption"), Str(<<>>))))
       ELSE s4

\* The state the field initialisers and the Ui constructor leave.
Blank ==
    [data |-> DefaultData,
     isCaptionEnabled |-> Null,
     classList |-> {},
     captionHTML |-> <<>>,
     children |-> <<>>,
     videoEl |-> 0,
     notified |-> 0,
     called |-> <<>>,
     issued |-> <<>>,
     thrown |-> "none"]

\* constructor
Construct(d, cfg) == SetData(Blank, d, cfg)

\* uploadingFailed
UploadingFailed(s) ==
    HidePreloader([s EXCEPT !.notified = @ + 1])

\* Mutant of OnUpload: the success flag is not looked at.
OnUpload_IgnoresSuccess(s, response) ==
    IF Truthy(Get(response, "file"))
    THEN SetVideo(s, Get(response, "file"))
    ELSE UploadingFailed(s)

\* onUpload
OnUpload(s, response) ==
    IF Truthy(Get(response, "success")) /\ Truthy(Get(response, "file"))
    THEN SetVideo(s, Get(response, "file"))
    ELSE UploadingFailed(s)

\* Mutant of CaptionShownOnRender: 'optional' shows the caption without text.
CaptionShownOnRender_OptionalAlways(cfg, caption) ==
    cfg.caption \in {"true", "undefined", "optional"}

\* The condition of render()'s if.
CaptionShownOnRender(cfg, caption) ==
    \/ cfg.caption = "true"
    \/ cfg.caption = "undefined"
    \/ (cfg.caption = "optional" /\ Truthy(caption))

\* render
RenderBlock(s, cfg) ==
    LET s1 == IF CaptionShownOnRender(cfg, s.data.caption)
              THEN ApplyTune([s EXCEPT !.isCaptionEnabled = Bool(TRUE)],
                             "caption", TRUE)
              ELSE s
    IN UiRender(s1)

\* validate: "true" or "false", or the TypeError of reading .url of a
\* null or undefined file.
Validate(savedData) ==
    IF ~CanRead(Get(savedData, "file")) THEN "TypeError"
    ELSE IF Truthy(Get(Get(savedData, "file"), "url")) THEN "true" ELSE "false"

\* ui.nodes.videoEl, as a value
CurrentEl(s) == IF s.videoEl = 0 THEN Undefined ELSE Obj(s.children[s.videoEl])

\* Mutant of SaveBlock: the missing dimensions default to 0.
SaveBlock_ZeroDefault(s) ==
    LET s1 == [s EXCEPT !.data.caption = Str(s.captionHTML)]
        w == Nullish(GetOpt(CurrentEl(s1), "videoWidth"), Zero)
        h == Nullish(GetOpt(CurrentEl(s1), "videoHeight"), Zero)
    IN [s1 EXCEPT !.data.aspectRatio = Divide(w, h)]

\* Mutant of SaveBlock: reading the caption also empties the caption node.
SaveBlock_ConsumesCaption(s) ==
    LET s1 == [s EXCEPT !.data.caption = Str(s.captionHTML), !.captionHTML = <<>>]
        w == Nullish(GetOpt(CurrentEl(s1), "videoWidth"), One)
        h == Nullish(GetOpt(CurrentEl(s1), "videoHeight"), One)
    IN [s1 EXCEPT !.data.aspectRatio = Divide(w, h)]

\* save
SaveBlock(s) ==
    LET s1 == [s EXCEPT !.data.caption = Str(s.captionHTML)]
        w == Nullish(GetOpt(CurrentEl(s1), "videoWidth"), One)
        h == Nullish(GetOpt(CurrentEl(s1), "videoHeight"), One)
    IN [s1 EXCEPT !.data.aspectRatio = Divide(w, h)]

\* renderSettings: the tunes listed, with what each reports.
RenderSettings(s, cfg) ==
    LET tunes == cfg.actions
                 \o (IF cfg.caption = "optional"
                     THEN <<[name |-> "caption", hasAction |-> FALSE]>>
                     ELSE <<>>)
        Available(tune) ==
            IF tune.name = "caption" THEN cfg.caption # "false" ELSE TRUE
        IsActive(tune) ==
            IF tune.name = "caption"
            THEN Nullish(s.isCaptionEnabled, Bool(FALSE)).v
            ELSE FALSE
        availableTunes == SelectSeq(tunes, Available)
    IN [i \in DOMAIN availableTunes |->
           [name |-> availableTunes[i].name,
            hasAction |-> availableTunes[i].hasAction,
            isActive |-> IsActive(availableTunes[i])]]

\* Mutant of TuneToggled: turning the caption off keeps its text.
TuneToggled_KeepsText(s, tuneName, state) ==
    IF tuneName = "caption"
    THEN ApplyTune(s, tuneName, state)
    ELSE [s EXCEPT !.thrown = "Error"]

\* Mutant of TuneToggled: the tune is not applied to the presentation.
TuneToggled_NoApply(s, tuneName, state) ==
    IF tuneName = "caption"
    THEN IF state = FALSE
         THEN FillCaption([s EXCEPT !.data.caption = Str(<<>>)], <<>>)
         ELSE s
    ELSE [s EXCEPT !.thrown = "Error"]

\* tuneToggled
TuneToggled(s, tuneName, state) ==
    IF tuneName = "caption"
    THEN LET s1 == ApplyTune(s, tuneName, state)
         IN IF state = FALSE
            THEN FillCaption([s1 EXCEPT !.data.caption = Str(<<>>)], <<>>)
            ELSE s1
    ELSE [s EXCEPT !.thrown = "Error"]

\* Mutant of OnActivate: after a tune's callback the built-in toggle runs too.
OnActivate_CallbackFallsThrough(s, tune) ==
    LET s0 == IF tune.hasAction
              THEN [s EXCEPT !.called = Append(@, tune.name)] ELSE s
    IN IF tune.name = "caption"
       THEN LET newState == ~Nullish(s0.isCaptionEnabled, Bool(FALSE)).v
            IN TuneToggled([s0 EXCEPT !.isCaptionEnabled = Bool(newState)],
                           tune.name, newState)
       ELSE TuneToggled(s0, tune.name, TRUE)

\* The onActivate closure renderSettings builds for a tune; called lists the
\* arguments the tune callbacks were invoked with.
OnActivate(s, tune) ==
    IF tune.hasAction
    THEN [s EXCEPT !.called = Append(@, tune.name)]
    ELSE IF tune.name = "caption"
         THEN LET newState == ~Nullish(s.isCaptionEnabled, Bool(FALSE)).v
              IN TuneToggled([s EXCEPT !.isCaptionEnabled = Bool(newState)],
                             tune.name, newState)
         ELSE TuneToggled(s, tune.name, TRUE)

\* The uploader sends a request: op is the operation called, arg its argument.
Issue(s, op, arg) == [s EXCEPT !.issued = Append(@, [op |-> op, arg |-> arg])]

\* Uploader.uploadByUrl(url): the request is issued.
UploadByUrl(s, url) == Issue(s, "uploadByUrl", url)

\* Uploader.uploadByFile(file, {onPreview}): onPreview, here the controller's
\* ui.showPreloader(), is invoked before the request is issued.
UploadByFile(s, file) == Issue(ShowPreloader(s), "uploadByFile", file)

\* Uploader.uploadSelectedFile({onPreview}) once the dialog is closed: with a
\* file it delegates to uploadByFile, without one it does nothing.
UploadSelectedFile(s, choice) ==
    IF choice = NoFile THEN s ELSE UploadByFile(s, choice)

\* Mutant of DoUploadUrl: the request is issued without the preloader.
DoUploadUrl_NoPreloader(s, url) == UploadByUrl(s, url)

\* uploadUrl
DoUploadUrl(s, url) == UploadByUrl(ShowPreloader(s), url)

\* uploadFile
DoUploadFile(s, file) == UploadByFile(s, file)

\* pasteConfig.patterns.video, /https?:\/\/\S+\.(webm|mp4)(\?[a-z0-9=]*)?$/i, on
\* a url given as its tokens: the part up to the extension, the extension,
\* and a query string if there is one.
MatchesVideoPattern(url) ==
    /\ Len(url) \in {2, 3}
    /\ url[1] # "blob:"
    /\ url[2] \in {".mp4", ".webm"}
    /\ Len(url) = 3 => url[3] = "?q=1"

\* /^blob:/.test(src)
StartsWithBlob(src) == Len(src) > 0 /\ src[1] = "blob:"

\* onPaste suspends at `await fetch(video.src)`.
AwaitsFetch(event) == event.type = "tag" /\ StartsWithBlob(event.detail)

\* onPaste, up to its end or to the await of the blob: branch.
OnPaste(s, event) ==
    CASE event.type = "tag" ->
             IF StartsWithBlob(event.detail) THEN s
             ELSE DoUploadUrl(s, event.detail)
      [] event.type = "pattern" -> DoUploadUrl(s, event.detail)
      [] event.type = "file" -> DoUploadFile(s, event.detail)
      [] OTHER -> s

\* onPaste after the await: response.blob(), then uploadFile(file).
OnPasteResumed(s, src) == DoUploadFile(s, FetchedBlob(src))

(***************************************************************************)
(* The state machine                                                       *)
(***************************************************************************)
\* The state a handler starts from: nothing notified, called or thrown yet.
Cur ==
    [data |-> data,
     isCaptionEnabled |-> isCaptionEnabled,
     classList |-> classList,
     captionHTML |-> captionHTML,
     children |-> children,
     videoEl |-> videoEl,
     notified |-> 0,
     called |-> <<>>,
     issued |-> <<>>,
     thrown |-> "none"]

\* The handler ends in s and returns ret: "data" is the record itself (a
\* reference to this._data), "wrapper" the presentation root.
Commit(s, ret) ==
    /\ data' = s.data
    /\ isCaptionEnabled' = s.isCaptionEnabled
    /\ classList' = s.classList
    /\ captionHTML' = s.captionHTML
    /\ children' = s.children
    /\ videoEl' = s.videoEl
    /\ last' = [ret |-> ret, thrown |-> s.thrown,
                notified |-> s.notified, called |-> s.called,
                issued |-> s.issued]

NoInput == Obj([none |-> Undefined])

\* The controller right after its constructor, for the given config and data.
Constructed ==
    /\ LET s == Construct(toolData, config)
       IN /\ data = s.data
          /\ isCaptionEnabled = s.isCaptionEnabled
          /\ classList = s.classList
          /\ captionHTML = s.captionHTML
          /\ children = s.children
          /\ videoEl = s.videoEl
          /\ last = [ret |-> "undefined", thrown |-> s.thrown,
                     notified |-> s.notified, called |-> s.called,
                     issued |-> s.issued]
    /\ started = 0
    /\ fetching = {}
    /\ pending = {}
    /\ lastOutcome = [id |-> 0, file |-> Undefined]

Init ==
    /\ config \in Configs
    /\ toolData \in SavedData
    /\ Constructed
    /\ vInput = NoInput
    /\ vResult = "none"

\* Each request the handler issued is an upload in flight, numbered in the
\* order of issue.
Track(s) ==
    /\ started' = started + Len(s.issued)
    /\ pending' = pending \cup ((started + 1) .. (started + Len(s.issued)))

\* uploadUrl(url): the preloader, then uploader.uploadByUrl(url).
UploadUrl(url) ==
    /\ started < MaxUploads
    /\ Commit(DoUploadUrl(Cur, url), "undefined")
    /\ Track(DoUploadUrl(Cur, url))
    /\ UNCHANGED <<config, toolData, lastOutcome, vInput, vResult, fetching>>

\* uploadFile(file): uploader.uploadByFile(file, {onPreview}).
UploadFile(file) ==
    /\ started < MaxUploads
    /\ Commit(DoUploadFile(Cur, file), "undefined")
    /\ Track(DoUploadFile(Cur, file))
    /\ UNCHANGED <<config, toolData, lastOutcome, vInput, vResult, fetching>>

\* The host delivers a paste event to onPaste.
Paste(event) ==
    /\ started + Cardinality(fetching) < MaxUploads
    /\ event.detail \notin fetching
    /\ Commit(OnPaste(Cur, event), "undefined")
    /\ Track(OnPaste(Cur, event))
    /\ fetching' = IF AwaitsFetch(event)
                   THEN fetching \cup {event.detail} ELSE fetching
    /\ UNCHANGED <<config, toolData, lastOutcome, vInput, vResult>>

\* The fetch of a pasted blob: src resolves and onPaste resumes.
FetchDone(src) ==
    /\ src \in fetching
    /\ Commit(OnPasteResumed(Cur, src), "undefined")
    /\ Track(OnPasteResumed(Cur, src))
    /\ fetching' = fetching \ {src}
    /\ UNCHANGED <<config, toolData, lastOutcome, vInput, vResult>>

\* The fetch of a pasted blob: src rejects (the blob was released): the
\* await throws and onPaste's promise rejects.
FetchFailed(src) ==
    /\ src \in fetching
    /\ Commit([Cur EXCEPT !.thrown = "TypeError"], "undefined")
    /\ fetching' = fetching \ {src}
    /\ UNCHANGED <<config, toolData, started, pending, lastOutcome, vInput, vResult>>

\* The select-file control is clicked (by the user, or by appendCallback) and
\* the dialog is closed with a file or without one.
SelectFile(choice) ==
    /\ started < MaxUploads
    /\ Commit(UploadSelectedFile(Cur, choice), "undefined")
    /\ Track(UploadSelectedFile(Cur, choice))
    /\ UNCHANGED <<config, toolData, lastOutcome, vInput, vResult, fetching>>

\* The uploader delivers the response of upload id to onUpload.
UploadResolved(id, response) ==
    /\ id \in pending
    /\ Commit(OnUpload(Cur, response), "undefined")
    /\ pending' = pending \ {id}
    /\ lastOutcome' = [id |-> id,
                       file |-> IF WellFormedSuccess(response)
                                THEN Get(response, "file") ELSE Undefined]
    /\ UNCHANGED <<config, toolData, started, vInput, vResult, fetching>>

\* The uploader reports the failure of upload id to onError.
UploadRejected(id) ==
    /\ id \in pending
    /\ Commit(UploadingFailed(Cur), "undefined")
    /\ pending' = pending \ {id}
    /\ lastOutcome' = [id |-> id, file |-> Undefined]
    /\ UNCHANGED <<config, toolData, started, vInput, vResult, fetching>>

\* The load / loadeddata listener fillVideo attached to element i fires.
MediaReady(i, dims) ==
    /\ i \in DOMAIN children
    /\ ~children[i].ready
    /\ LET el == children[i]
           loaded == IF el.tag = "VIDEO"
                     THEN [el EXCEPT !.ready = TRUE,
                                     !.videoWidth = Num(dims[1], 1),
                                     !.videoHeight = Num(dims[2], 1)]
                     ELSE [el EXCEPT !.ready = TRUE]
       IN Commit(ToggleStatus([Cur EXCEPT !.children[i] = loaded], Filled),
                 "undefined")
    /\ UNCHANGED <<config, toolData, started, pending, lastOutcome, vInput, vResult, fetching>>

Render ==
    /\ Commit(RenderBlock(Cur, config), "wrapper")
    /\ UNCHANGED <<config, toolData, started, pending, lastOutcome, vInput, vResult, fetching>>

Save ==
    /\ Commit(SaveBlock(Cur), "data")
    /\ UNCHANGED <<config, toolData, started, pending, lastOutcome, vInput, vResult, fetching>>

\* What renderSettings() returns in the current state.
Menu == RenderSettings(Cur, config)

\* The user activates entry i of the settings menu renderSettings() built.
Activate(i) ==
    /\ i \in DOMAIN Menu
    /\ Commit(OnActivate(Cur, Menu[i]), "undefined")
    /\ UNCHANGED <<config, toolData, started, pending, lastOutcome, vInput, vResult, fetching>>

\* The user edits the caption in place (the caption node is contentEditable).
EditCaption(text) ==
    /\ captionHTML # text
    /\ Commit([Cur EXCEPT !.captionHTML = text], "undefined")
    /\ UNCHANGED <<config, toolData, started, pending, lastOutcome, vInput, vResult, fetching>>

Next ==
    \/ UploadUrl(UrlA)
    \/ UploadFile(Blob)
    \/ \E id \in pending, r \in Responses : UploadResolved(id, r)
    \/ \E id \in pending : UploadRejected(id)
    \/ \E i \in DOMAIN children, dims \in VideoDims : MediaReady(i, dims)
    \/ Render
    \/ Save
    \/ \E i \in DOMAIN Menu : Activate(i)
    \/ \E text \in Captions : EditCaption(text)

Spec == Init /\ [][Next]_vars

(***************************************************************************)
(* The caption and the tunes, under every setting of features.caption and  *)
(* with configured actions: the host's calls, the user's edits and menu    *)
(* activations, and the ready signal of a restored block's media element.  *)
(***************************************************************************)
InitCaption ==
    /\ config \in CaptionConfigs
    /\ toolData \in SavedData
    /\ Constructed
    /\ vInput = NoInput
    /\ vResult = "none"

NextCaption ==
    \/ Render
    \/ Save
    \/ \E i \in DOMAIN Menu : Activate(i)
    \/ \E text \in Captions : EditCaption(text)
    \/ \E i \in DOMAIN children, dims \in VideoDims : MediaReady(i, dims)

SpecCaption == InitCaption /\ [][NextCaption]_vars

(***************************************************************************)
(* The input pathways: paste events, the fetch of a pasted blob, the       *)
(* select-file control, and the outcomes and ready signals of the uploads  *)
(* they start.                                                             *)
(***************************************************************************)
InitPaste ==
    /\ config \in Configs
    /\ toolData \in SavedData
    /\ Constructed
    /\ vInput = NoInput
    /\ vResult = "none"

NextPaste ==
    \/ \E event \in PasteEvents : Paste(event)
    \/ \E src \in fetching : FetchDone(src)
    \/ \E src \in fetching : FetchFailed(src)
    \/ \E choice \in {NoFile, Blob} : SelectFile(choice)
    \/ \E id \in pending, r \in Responses : UploadResolved(id, r)
    \/ \E id \in pending : UploadRejected(id)
    \/ \E i \in DOMAIN children, dims \in VideoDims : MediaReady(i, dims)

SpecPaste == InitPaste /\ [][NextPaste]_vars

(***************************************************************************)
(* validate() is a pure function of its argument: it is applied to records *)
(* of every shape the claim names, on a freshly constructed controller.    *)
(***************************************************************************)
ValidateFiles ==
    { Null, Undefined, EmptyObject, Obj([url |-> Null]), FileEmptyUrl, FileA,
      FileB, Obj([id |-> Str(<<"7">>)]) }

ValidateInputs ==
    { Obj([file |-> f, caption |-> Str(c), aspectRatio |-> r]) :
          f \in ValidateFiles, c \in Captions, r \in {One, Num(2, 1), NaN, Null} }
    \cup { Obj([caption |-> Str(c), aspectRatio |-> r]) :
              c \in Captions, r \in {One, Num(2, 1), NaN, Null} }

InitValidate ==
    /\ config = [caption |-> "undefined", actions |-> <<>>]
    /\ toolData = EmptyObject
    /\ Constructed
    /\ vInput \in ValidateInputs
    /\ vResult = "none"

\* The host calls validate(vInput).
ValidateCall ==
    /\ vResult = "none"
    /\ vResult' = Validate(vInput)
    /\ UNCHANGED <<config, toolData, data, isCaptionEnabled, classList,
                   captionHTML, children, videoEl, started, pending,
                   lastOutcome, last, fetching, vInput>>

NextValidate == ValidateCall

SpecValidate == InitValidate /\ [][NextValidate]_vars

(***************************************************************************)
(* Properties                                                              *)
(***************************************************************************)
\* The UI statuses active on the presentation root.
Status == classList \cap UiState

\* A response that reports failure or carries no file.
IsFailure(r) ==
    \/ Get(r, "success") # One
    \/ Get(r, "file").t # "object"

\* A response that reports success but whose file has no non-empty url.
IsMalformed(r) ==
    /\ Get(r, "success") = One
    /\ Get(r, "file").t = "object"
    /\ ~WellFormedSuccess(r)

\* C1: whenever onUpload handles a response with success=1 and a file whose url
\* is a non-empty string, the record's file right after the call is exactly
\* the response's file: the same properties with the same values, whatever
\* the record and the status were before.
C1_FileEqualsResponseFile ==
    [][\A id \in pending \ pending', r \in Responses :
           (UploadResolved(id, r) /\ WellFormedSuccess(r))
               => data'.file = Get(r, "file")]_vars

\* C1 witness: a block restored from saved data (file a.mp4) whose last
\* handled response carried b.webm with the extra field id, now its file.
C1_Witness ==
    /\ toolData # EmptyObject
    /\ lastOutcome.file = FileB
    /\ data.file = FileB
    /\ DOMAIN data.file.p = {"url", "id"}

\* C2: handling a transport error, or a response with success=0 or with no
\* file, leaves the record (file, caption, aspectRatio) as it was, sets the
\* status to Empty, and raises exactly one failure notification.
C2_FailureLeavesRecord ==
    [][\A id \in pending \ pending' :
           (\/ UploadRejected(id)
            \/ \E r \in Responses : UploadResolved(id, r) /\ IsFailure(r))
               => /\ data' = data
                  /\ classList' \cap UiState = {Empty}
                  /\ last'.notified = 1]_vars

\* C2 witness: a failure was just handled on a block that holds a file: one
\* notification, status Empty, no upload left in flight.
C2_Witness ==
    /\ last.notified = 1
    /\ lastOutcome.id # 0
    /\ lastOutcome.file = Undefined
    /\ Status = {Empty}
    /\ data.file = FileA
    /\ pending = {}

\* C3: a response that reports success but whose file has no non-empty url is
\* handled as an upload failure: record unchanged, a notification raised, and
\* the status no longer Uploading.
C3_MalformedIsFailure ==
    [][\A id \in pending \ pending', r \in Responses :
           (UploadResolved(id, r) /\ IsMalformed(r))
               => /\ data' = data
                  /\ last'.notified >= 1
                  /\ Uploading \notin classList']_vars

\* The url of a record's file is a non-empty string.
HasNonEmptyUrl(record) ==
    /\ Get(record, "file").t = "object"
    /\ Get(Get(record, "file"), "url").t = "string"
    /\ Get(Get(record, "file"), "url").v # <<>>

\* C4: validate(record) returns true exactly when record.file.url is a
\* non-empty string, and otherwise returns false as a value, never raising an
\* error, also when file or file.url is null or missing.
C4_ValidateIffUrl ==
    vResult # "none" =>
        /\ vResult \in {"true", "false"}
        /\ (vResult = "true") <=> HasNonEmptyUrl(vInput)

\* C5: the file of the record save() returns is an object with a url property.
C5_SavedFileHasUrl ==
    last.ret = "data" =>
        /\ data.file.t = "object"
        /\ "url" \in DOMAIN data.file.p

\* C6: on a block constructed without saved data, with no upload started and
\* no caption typed, render() leaves the status Empty and save() returns
\* exactly {file: {url: ''}, caption: '', aspectRatio: 1}; construction raises
\* no error.
C6_FreshBlock ==
    (toolData = EmptyObject /\ started = 0 /\ captionHTML = <<>>) =>
        /\ last.thrown = "none"
        /\ last.ret = "wrapper" => Status = {Empty}
        /\ last.ret = "data" =>
               data = [file |-> Obj([url |-> Str(<<>>)]),
                       caption |-> Str(<<>>),
                       aspectRatio |-> Num(1, 1)]

\* C6 witness: no saved data, render() has run (the status is Empty although
\* no upload ever failed) and save() has just returned the default record.
C6_Witness ==
    /\ toolData = EmptyObject
    /\ started = 0
    /\ captionHTML = <<>>
    /\ Status = {Empty}
    /\ last.ret = "data"
    /\ data.aspectRatio = Num(1, 1)

\* C7: whenever the outcome handled most recently was a well-formed success,
\* the record's file is that response's file, whichever upload it answered:
\* with overlapping uploads the response handled last wins, not the upload
\* started last.
C7_LastResolvedWins ==
    lastOutcome.file # Undefined => data.file = lastOutcome.file

\* C7 witness: on a new block two uploads were started and both accepted, the
\* second (b.webm) answered first and the first (a.mp4) answered last: the
\* record holds a.mp4.
C7_Witness ==
    /\ toolData = EmptyObject
    /\ started = 2
    /\ pending = {}
    /\ lastOutcome = [id |-> 1, file |-> FileA]
    /\ Len(children) = 2
    /\ children[1].src = UrlB
    /\ children[2].src = UrlA
    /\ data.file = FileA

\* The aspect ratio save() is to store for the media element el: width/height
\* of its natural dimensions when it has them, 1 otherwise.
ExpectedAspectRatio(el) ==
    IF /\ el.t = "object"
       /\ Get(el, "videoWidth").t = "number"
       /\ Get(el, "videoHeight").t = "number"
       /\ Get(el, "videoWidth").n > 0
       /\ Get(el, "videoHeight").n > 0
    THEN Divide(Get(el, "videoWidth"), Get(el, "videoHeight"))
    ELSE Num(1, 1)

\* C8: after save() the record's aspectRatio is a positive number: width/height
\* of the media element's natural dimensions when available, and 1 when there
\* is no element, an image element, or a video whose dimensions are still 0.
C8_AspectRatioPositive ==
    last.ret = "data" =>
        /\ data.aspectRatio.t = "number"
        /\ data.aspectRatio.n > 0
        /\ data.aspectRatio = ExpectedAspectRatio(CurrentEl(Cur))

\* C9: render() turns the caption on (caption flag true, caption tune applied)
\* exactly when features.caption is not configured, or is true, or is
\* 'optional' and the record has caption text; otherwise it leaves the flag
\* and the applied tune as they were.
C9_RenderCaptionRule ==
    [][Render =>
           IF \/ config.caption \in {"undefined", "true"}
              \/ (config.caption = "optional" /\ data.caption.v # <<>>)
           THEN /\ isCaptionEnabled' = Bool(TRUE)
                /\ "caption" \in classList'
           ELSE /\ isCaptionEnabled' = isCaptionEnabled
                /\ ("caption" \in classList') <=> ("caption" \in classList)]_vars

\* C9 witness: 'optional' caption on a block restored with caption text:
\* render() has just run and the caption is on.
C9_Witness ==
    /\ config.caption = "optional"
    /\ Get(toolData, "caption") = Str(<<"cap">>)
    /\ last.ret = "wrapper"
    /\ data.caption = Str(<<"cap">>)
    /\ isCaptionEnabled = Bool(TRUE)
    /\ "caption" \in classList

\* The caption toggle of the settings menu: the entry named caption that has
\* no callback of its own.
CaptionTunes == {i \in DOMAIN Menu : Menu[i].name = "caption" /\ ~Menu[i].hasAction}

\* With features.caption 'optional': the menu lists a caption tune, it reports
\* active exactly when the caption UI is shown, and the flag agrees.
CaptionTuneAgrees ==
    /\ CaptionTunes # {}
    /\ \A i \in CaptionTunes : Menu[i].isActive <=> ("caption" \in classList)
    /\ ("caption" \in classList) <=> (isCaptionEnabled = Bool(TRUE))

\* C10: with features.caption 'optional', renderSettings() lists a caption tune
\* that reports active exactly when the caption UI is shown (inactive and not
\* shown on a block without caption text, before and after render()), and
\* each activation of that tune flips the flag and the caption UI together.
C10_OptionalCaptionToggle ==
    /\ (config.caption = "optional") =>
           /\ CaptionTuneAgrees
           /\ (data.caption.v = <<>>) => "caption" \notin classList
    /\ [][(config.caption = "optional") =>
              /\ CaptionTuneAgrees'
              /\ \A i \in CaptionTunes :
                     Activate(i) =>
                         /\ ("caption" \in classList') <=> ("caption" \notin classList)
                         /\ isCaptionEnabled' = Bool("caption" \notin classList)
              /\ (Render /\ data.caption.v = <<>>) =>
                     ("caption" \in classList') <=> ("caption" \in classList)]_vars

\* C10 witness: 'optional' caption on a new block: the tune was activated
\* twice, so the flag is false (not null) and the caption UI is hidden again.
C10_Witness ==
    /\ config.caption = "optional"
    /\ toolData = EmptyObject
    /\ isCaptionEnabled = Bool(FALSE)
    /\ "caption" \notin classList
    /\ \A i \in CaptionTunes : ~Menu[i].isActive

\* C11: a save() that directly follows a save(), with no caption edit, upload
\* outcome, ready signal, tune activation or other call in between, returns a
\* record equal to the one just returned and changes neither the controller's
\* nor the presentation's state.
C11_SaveIdempotent ==
    [][(last.ret = "data" /\ Save) =>
           /\ last'.ret = "data"
           /\ data' = data
           /\ UNCHANGED <<isCaptionEnabled, classList, captionHTML, children,
                          videoEl>>]_vars

\* C11 witness: save() has just returned a record with caption text and the
\* aspect ratio of a loaded video; calling it again is the claim's case.
C11_Witness ==
    /\ last.ret = "data"
    /\ data.caption = Str(<<"cap">>)
    /\ videoEl # 0
    /\ children[videoEl].ready
    /\ data.aspectRatio = Num(2, 1)
    /\ ENABLED Save

\* C12: the status becomes Filled only in a step that is the ready signal
\* (load / loadeddata) of an element fillVideo built, no block is Filled right
\* after construction, and handling a well-formed successful response (which
\* calls fillVideo) leaves the status what it was: Uploading stays Uploading
\* until the ready signal.
C12_FilledOnlyByReadySignal ==
    /\ (started = 0 /\ \A i \in DOMAIN children : ~children[i].ready)
           => Filled \notin classList
    /\ [][/\ (Filled \in classList' /\ Filled \notin classList) =>
                  \E i \in DOMAIN children, dims \in VideoDims : MediaReady(i, dims)
           /\ \A id \in pending \ pending', r \in Responses :
                  (UploadResolved(id, r) /\ WellFormedSuccess(r)) =>
                      /\ Len(children') = Len(children) + 1
                      /\ classList' \cap UiState = classList \cap UiState]_vars

\* C12 witness: the response of the only upload was accepted (the record and
\* the new element carry its file) and the element has not signalled ready:
\* the status is still Uploading.
C12_Witness ==
    /\ started = 1
    /\ pending = {}
    /\ lastOutcome.file = FileA
    /\ data.file = FileA
    /\ videoEl = Len(children)
    /\ ~children[videoEl].ready
    /\ Status = {Uploading}

\* The block shows the media of an accepted upload that overlaps no other:
\* nothing in flight, the last outcome a well-formed success whose element is
\* the current one and has signalled ready.
ShowsUploadedMedia ==
    /\ pending = {}
    /\ lastOutcome.file # Undefined
    /\ videoEl # 0
    /\ children[videoEl].ready

\* C13: for an upload that overlaps no other and resolves with success=1 and a
\* file url U, the record's file.url is U once the response is handled; the
\* ready signal of the displayed element makes the status Filled; and the
\* status then stays Filled for as long as no new upload is started.
C13_SingleUploadFilled ==
    [][/\ \A id \in pending \ pending', r \in Responses :
              (pending = {id} /\ UploadResolved(id, r) /\ WellFormedSuccess(r))
                  => Get(data'.file, "url") = Get(Get(r, "file"), "url")
       /\ (videoEl # 0 /\ \E dims \in VideoDims : MediaReady(videoEl, dims))
              => classList' \cap UiState = {Filled}
       /\ (ShowsUploadedMedia /\ Status = {Filled} /\ started' = started)
              => classList' \cap UiState = {Filled}]_vars

\* C14: when the status is Uploading or Filled, the only step that makes it
\* Empty is the handling of an upload failure: the uploader's onError, or a
\* response that onUpload rejects.  No render, save, tune activation, caption
\* edit, ready signal or accepted response does.
C14_EmptyOnlyByFailure ==
    [][(Status \in {{Uploading}, {Filled}} /\ classList' \cap UiState = {Empty}) =>
           \E id \in pending \ pending' :
               \/ UploadRejected(id)
               \/ \E r \in Responses : UploadResolved(id, r) /\ IsFailure(r)]_vars

\* C15: in every state from construction onward exactly one of the statuses
\* empty, uploading, filled is active on the presentation root, and before the
\* first upload, ready signal or failure that one is Empty.
C15_ExactlyOneStatus ==
    /\ Cardinality(Status) = 1
    /\ (started = 0 /\ \A i \in DOMAIN children : ~children[i].ready)
           => Status = {Empty}

\* The one request a paste event is to end in: by file for a tag with a blob:
\* src (the fetched blob) and for a file event, by URL for any other tag (its
\* src) and for a pattern event (the matched string).
ExpectedRequest(event) ==
    CASE event.type = "tag" /\ event.detail[1] = "blob:" ->
             [op |-> "uploadByFile", arg |-> FetchedBlob(event.detail)]
      [] event.type = "tag" /\ event.detail[1] # "blob:" ->
             [op |-> "uploadByUrl", arg |-> event.detail]
      [] event.type = "pattern" ->
             [op |-> "uploadByUrl", arg |-> event.detail]
      [] event.type = "file" ->
             [op |-> "uploadByFile", arg |-> event.detail]

\* C16: every paste event ends in exactly one upload request, the expected
\* one: a tag with any other than a blob: src, a pattern and a file event
\* issue it in the paste handler itself; a tag with a blob: src issues nothing
\* before its fetch is over and exactly the upload of the fetched blob when it
\* is over.
C16_PasteDispatch ==
    [][/\ \A event \in PasteEvents :
              Paste(event) =>
                  IF event.type = "tag" /\ event.detail[1] = "blob:"
                  THEN last'.issued = <<>> /\ event.detail \in fetching'
                  ELSE last'.issued = <<ExpectedRequest(event)>>
       /\ \A src \in fetching \ fetching' :
              last'.issued = <<ExpectedRequest([type |-> "tag", detail |-> src])>>]_vars

\* C17: on every pathway the step that puts an upload in flight has shown the
\* preloader (the status is Uploading after it), an outcome is handled only
\* for an upload in flight, hence after its preloader, and closing the
\* file-selection dialog without a file starts no upload and leaves the
\* status, the record and the displayed elements as they were.
C17_PreloaderBeforeOutcome ==
    [][/\ (pending' \ pending # {}) => classList' \cap UiState = {Uploading}
       /\ (lastOutcome' # lastOutcome) => lastOutcome'.id \in pending \ pending'
       /\ SelectFile(NoFile) =>
              /\ last'.issued = <<>>
              /\ UNCHANGED <<data, classList, children, videoEl, started,
                             pending, isCaptionEnabled, captionHTML>>]_vars

\* C17 witness: a tag with a blob: src was pasted on a block whose earlier
\* upload had failed (status Empty); its fetch is over, the upload of the
\* fetched blob is the only one in flight and the status is Uploading.
C17_Witness ==
    /\ lastOutcome = [id |-> 1, file |-> Undefined]
    /\ last.issued = <<[op |-> "uploadByFile", arg |-> FetchedBlob(SrcBlob)]>>
    /\ pending = {2}
    /\ fetching = {}
    /\ Status = {Uploading}

\* C18: activating the caption toggle while it reports active (turning the
\* caption off) sets the record's caption to '' and empties the displayed
\* caption, so that a save() with the caption off and no text typed since
\* returns caption ''; activating it while it reports inactive (turning the
\* caption on) leaves the record's caption, file and aspectRatio as they were.
C18_CaptionOffClearsText ==
    [][/\ \A i \in CaptionTunes :
              Activate(i) =>
                  IF Menu[i].isActive
                  THEN /\ isCaptionEnabled' = Bool(FALSE)
                       /\ data'.caption = Str(<<>>)
                       /\ captionHTML' = <<>>
                  ELSE /\ isCaptionEnabled' = Bool(TRUE)
                       /\ data' = data
       /\ (Save /\ isCaptionEnabled = Bool(FALSE) /\ captionHTML = <<>>)
              => data'.caption = Str(<<>>)]_vars

\* C18 witness: a block restored with caption text whose caption was turned
\* off: save() has just returned a record with caption ''.
C18_Witness ==
    /\ Get(toolData, "caption") = Str(<<"cap">>)
    /\ isCaptionEnabled = Bool(FALSE)
    /\ "caption" \notin classList
    /\ captionHTML = <<>>
    /\ last.ret = "data"
    /\ data.caption = Str(<<>>)
    /\ data.file = FileA

\* C19: activating a listed tune that has a callback invokes the callback
\* once, with the tune's name, raises no error and leaves the record, the
\* caption flag and the root's classes (status and tune flags) as they were,
\* also when the tune is named caption; activating a listed tune that has no
\* callback and is not named caption raises an error, invokes nothing and
\* leaves the same state as it was.
C19_TuneActivation ==
    [][\A i \in DOMAIN Menu :
           Activate(i) =>
               IF Menu[i].hasAction
               THEN /\ last'.called = <<Menu[i].name>>
                    /\ last'.thrown = "none"
                    /\ UNCHANGED <<data, isCaptionEnabled, classList, captionHTML>>
               ELSE (Menu[i].name # "caption") =>
                        /\ last'.called = <<>>
                        /\ last'.thrown = "Error"
                        /\ UNCHANGED <<data, isCaptionEnabled, classList,
                                       captionHTML>>]_vars

\* C19 witness: with the caption shown on a block that has caption text, the
\* configured tune named caption was activated: its callback was invoked
\* with 'caption', and the caption is still on with its text.
C19_Witness ==
    /\ last.called = <<"caption">>
    /\ last.thrown = "none"
    /\ isCaptionEnabled = Bool(TRUE)
    /\ "caption" \in classList
    /\ data.caption = Str(<<"cap">>)

\* The record and the caption flag are the same in s as in the current state.
KeepsRecordAndFlag(s) ==
    /\ s.data = data
    /\ s.isCaptionEnabled = isCaptionEnabled

\* C20: no operation of the presentation layer writes the record or the
\* caption flag: in every reachable state each of render, showPreloader,
\* hidePreloader, fillVideo, fillCaption, applyTune and toggleStatus leaves
\* them as they are, and so does the ready listener; the record and the flag
\* change only in the controller's render, save, onUpload and tune
\* activation.
C20_UiNeverWritesRecord ==
    /\ KeepsRecordAndFlag(UiRender(Cur))
    /\ KeepsRecordAndFlag(ShowPreloader(Cur))
    /\ KeepsRecordAndFlag(HidePreloader(Cur))
    /\ \A url \in {UrlA, UrlB} : KeepsRecordAndFlag(FillVideo(Cur, url))
    /\ \A text \in Captions : KeepsRecordAndFlag(FillCaption(Cur, text))
    /\ \A status \in BOOLEAN : KeepsRecordAndFlag(ApplyTune(Cur, "caption", status))
    /\ \A status \in UiState : KeepsRecordAndFlag(ToggleStatus(Cur, status))
    /\ [][/\ (children' # children /\ Len(children') = Len(children))
                 => /\ \E i \in DOMAIN children, dims \in VideoDims :
                           MediaReady(i, dims)
                    /\ data' = data
                    /\ isCaptionEnabled' = isCaptionEnabled
          /\ (data' # data \/ isCaptionEnabled' # isCaptionEnabled)
                 => \/ Render
                    \/ Save
                    \/ \E i \in DOMAIN Menu : Activate(i)
                    \/ \E id \in pending \ pending', r \in Responses :
                           UploadResolved(id, r)]_vars

\* C20 witness: a block whose record was written by an accepted upload, a tune
\* activation and save() (file, caption flag, aspect ratio of the loaded
\* video), with the presentation in status Filled after the ready signal.
C20_Witness ==
    /\ toolData = EmptyObject
    /\ data.file = FileA
    /\ data.aspectRatio = Num(2, 1)
    /\ isCaptionEnabled = Bool(FALSE)
    /\ Status = {Filled}
    /\ videoEl # 0
    /\ children[videoEl].ready

\* C21: every element fillVideo built is a playable video (tag VIDEO, inline,
\* with controls, ready on loadeddata) exactly when its source is one the
\* widget recognizes as a video URL (ending in .mp4 or .webm, with or without
\* a query string), and a static image (tag IMG, ready on load) otherwise.
C21_VideoElementForVideoUrl ==
    \A i \in DOMAIN children :
        IF MatchesVideoPattern(children[i].src)
        THEN /\ children[i].tag = "VIDEO"
             /\ children[i].playsinline
             /\ children[i].controls
             /\ children[i].eventName = "loadeddata"
        ELSE /\ children[i].tag = "IMG"
             /\ children[i].eventName = "load"

\* C22: whenever the status is Filled the record is valid: its file.url is a
\* non-empty string and validate(record) returns true.
C22_FilledImpliesValid ==
    (Filled \in classList) =>
        /\ HasNonEmptyUrl(Obj(data))
        /\ Validate(Obj(data)) = "true"

\* C23: whenever the status is Filled, the current media element (the one
\* built by the most recent fillVideo call, which save() reads) has signalled
\* ready: the ready signal of a superseded element never makes the widget
\* Filled while the current element is still loading.
C23_FilledByCurrentElement ==
    (Filled \in classList) =>
        /\ videoEl # 0
        /\ children[videoEl].ready

\* C24: on a block constructed from saved data with a non-empty file.url and
\* with no upload started, once the media element has signalled ready and
\* render() has been called, in either order, the status is Filled.  (Before
\* the first render() the ready signal is the only thing that sets a status,
\* so with the element ready the status is to be Filled in every state.)
C24_ReadySignalNotLost ==
    (/\ HasNonEmptyUrl(toolData)
     /\ started = 0
     /\ videoEl # 0
     /\ children[videoEl].ready)
        => Status = {Filled}

\* C25: the media container never holds more than one media element, and
\* when it holds one, that element's source is the record's file.url: an
\* accepted upload on a block that already shows an element replaces it.
C25_AtMostOneMediaElement ==
    /\ Len(children) <= 1
    /\ Len(children) = 1 => Str(children[1].src) = Get(data.file, "url")

====
